---- MODULE Spec2Model ----
(***************************************************************************)
(* Model of experiments/tfi_ite_peps.py: imaginary-time evolution of a     *)
(* PEPS under the transverse-field Ising Hamiltonian.                      *)
(*                                                                         *)
(* A tensor is modelled by its shape and by what was folded into it:       *)
(*   - a gate factor is [dims, w, field]: the dimensions of its four bond  *)
(*     legs (python axes 0..3 = legs 1..4 here), the weight it carries on  *)
(*     each singular component of the two-site gate, and the number of     *)
(*     single-site (field) operators contracted into it;                   *)
(*   - a site tensor is [dims, ver]: its four bond dimensions and the      *)
(*     number of times the tensor stored at that coordinate was replaced.  *)
(* Legs: 1 = north (row-1), 2 = east (col+1), 3 = south (row+1),           *)
(* 4 = west (col-1), as fixed by the einsum patterns of lines 24-25, 31-32.*)
(***************************************************************************)
EXTENDS Integers, Sequences, FiniteSets, TLC

\* ---------------------------------------------------------------- bounds
MaxRows == 2
MaxCols == 3
MaxRank == 2
MaxSteps == 2
MaxNormFreq == 2
MaxSV == 2

\* ------------------------------------------------------------- constants
\* dimension of the physical leg: reshape(1,1,1,1,2,2), reshape(2,2,2,2)
PhysDim == 2
\* number of singular values einsvd returns for the (xy | uv) grouping
GateBond == PhysDim * PhysDim

North == 1
East == 2
South == 3
West == 4

VARIABLES
    nrow, ncol, maxrank, steps, normfreq, randomized_svd,  \* args
    sv,            \* singular values of exp_pauli_zz as einsvd returns them
    pc,            \* position in main / build / run_peps / apply
    one_site, h_two_site, v_two_site,
    hoperators, voperators, touched_sites,
    n,             \* position of the np.ndindex iterator of the build loops
    grid,          \* qstate.grid
    i,             \* completed iterations of "for i in range(steps)"
    dir, e,        \* which operator map apply_... iterates, and where
    tmp,           \* the pair reduce_y / reduce_x returned, being stored
    \* history variables
    issued,        \* kinds of backend operations issued so far
    updated,       \* edges whose bond update finished, in order, whole run
    normAt,        \* the site_normalize calls
    svdUsed,       \* truncation options the reduce calls were given
    pre,           \* qstate.grid when the current bond update began
    grid0          \* qstate.grid as peps.random returned it

vars == <<nrow, ncol, maxrank, steps, normfreq, randomized_svd, sv, pc,
          one_site, h_two_site, v_two_site, hoperators, voperators,
          touched_sites, n, grid, i, dir, e, tmp, issued, updated, normAt,
          svdUsed, pre, grid0>>

args == <<nrow, ncol, maxrank, steps, normfreq, randomized_svd, sv>>

\* --------------------------------------------------------------- helpers
Min(a, b) == IF a <= b THEN a ELSE b

NoTensor == [dims |-> <<>>, w |-> <<>>, field |-> 0]

\* exp(J*tau*ZZ) is diagonal with entries e^{J tau}, e^{-J tau}, each twice:
\* its singular values are p, p, q, q with p >= q > 0.
Spectra ==
    {<<pq[1], pq[1], pq[2], pq[2]>> :
        pq \in {x \in (1..MaxSV) \X (1..MaxSV) : x[1] >= x[2]}}

\* s ** 2, elementwise (lines 23 and 30)
SquareAll(s) == [x \in DOMAIN s |-> s[x] * s[x]]

\* one_site_operator: reshape(1,1,1,1,2,2) of exp(h*tau*X)
one_site_operator == [dims |-> <<1, 1, 1, 1>>, w |-> <<>>, field |-> 1]

\* horizontal_pair_site_operator with the gate bond of uv on a wrong leg
horizontal_pair_site_operator_wrong_leg(s) ==
    LET s2 == SquareAll(s) IN
    << [dims |-> <<1, Len(s), 1, 1>>, w |-> s2, field |-> 0],
       [dims |-> <<1, 1, Len(s), 1>>, w |-> s2, field |-> 0] >>

\* 'xys,s->()s()()xy' puts the gate bond on leg East of the first factor,
\* 'uvs,s->()()()suv' on leg West of the second; both are scaled by s ** 2.
horizontal_pair_site_operator(s) ==
    LET s2 == SquareAll(s) IN
    << [dims |-> [l \in 1..4 |-> IF l = East THEN Len(s) ELSE 1],
        w |-> s2, field |-> 0],
       [dims |-> [l \in 1..4 |-> IF l = West THEN Len(s) ELSE 1],
        w |-> s2, field |-> 0] >>

\* vertical_pair_site_operator with the single-site operator folded in
vertical_pair_site_operator_with_field(s) ==
    LET s2 == SquareAll(s) IN
    << [dims |-> <<1, 1, Len(s), 1>>, w |-> s2, field |-> 1],
       [dims |-> <<Len(s), 1, 1, 1>>, w |-> s2, field |-> 1] >>

\* 'sxy,s->()()s()xy' (South of the first), 'suv,s->s()()()uv' (North of
\* the second); both scaled by s ** 2.
vertical_pair_site_operator(s) ==
    LET s2 == SquareAll(s) IN
    << [dims |-> [l \in 1..4 |-> IF l = South THEN Len(s) ELSE 1],
        w |-> s2, field |-> 0],
       [dims |-> [l \in 1..4 |-> IF l = North THEN Len(s) ELSE 1],
        w |-> s2, field |-> 0] >>

\* sites.contract_z(one_site, op): the single-site operator applied on the
\* physical leg of a gate factor; bond legs multiply.
contract_z_op(one, op) ==
    [dims |-> [l \in 1..4 |-> one.dims[l] * op.dims[l]],
     w |-> op.w, field |-> one.field + op.field]

\* sites.contract_z(qstate[c], op): a new site tensor whose bond legs are
\* the products of the site's and the factor's legs.
contract_z(site, op) ==
    [dims |-> [l \in 1..4 |-> site.dims[l] * op.dims[l]],
     ver |-> site.ver + 1]

ReduceOptionTwice(k) == [kind |-> "implicit_rsvd", rank |-> 2 * k]

\* option=ImplicitRandomizedSVD(maxrank): what reduce_y / reduce_x are
\* given, whatever randomized_svd says
ReduceOption(k) == [kind |-> "implicit_rsvd", rank |-> k]

\* sites.reduce_y / reduce_x on legs (la of a, lb of b): the shared bond
\* is truncated to at most option.rank, the other legs are kept.
reduce(sa, sb, la, lb, option) ==
    LET r == Min(option.rank, Min(sa.dims[la], sb.dims[lb])) IN
    << [dims |-> [sa.dims EXCEPT ![la] = r], ver |-> sa.ver + 1],
       [dims |-> [sb.dims EXCEPT ![lb] = r], ver |-> sb.ver + 1] >>

reduce_y(sa, sb, option) == reduce(sa, sb, East, West, option)

reduce_x(sa, sb, option) == reduce(sa, sb, South, North, option)

\* peps.random(nrow, ncol, maxrank): bonds of dimension maxrank between
\* neighbours, 1 on the boundary.
peps_random(R, C, k) ==
    [c \in (0..R-1) \X (0..C-1) |->
        [dims |-> << IF c[1] > 0 THEN k ELSE 1,
                     IF c[2] < C - 1 THEN k ELSE 1,
                     IF c[1] < R - 1 THEN k ELSE 1,
                     IF c[2] > 0 THEN k ELSE 1 >>,
         ver |-> 0]]

\* qstate.site_normalize(): every site rescaled in place, no shape change
site_normalize(g) == [c \in DOMAIN g |-> [g[c] EXCEPT !.ver = @ + 1]]

\* the x-th index (from 0) np.ndindex(d1, d2) yields: last axis fastest
ndindex(x, d2) == <<x \div d2, x % d2>>

\* np.ndindex raises ValueError on a negative dimension
ndindex_raises(d1, d2) == d1 < 0 \/ d2 < 0

HEdgeSwapped(ij) == << <<ij[1], ij[2] + 1>>, <<ij[1], ij[2]>> >>

\* a, b = (i,j), (i,j+1)
HEdge(ij) == << <<ij[1], ij[2]>>, <<ij[1], ij[2] + 1>> >>

\* (i,j), (i+1,j)
VEdge(ij) == << <<ij[1], ij[2]>>, <<ij[1] + 1, ij[2]>> >>

HCountNoMinus(R, C) == R * C

\* number of indices np.ndindex(nrows, ncols-1) yields
HCount(R, C) == R * (C - 1)

\* number of indices np.ndindex(nrows-1, ncols) yields
VCount(R, C) == (R - 1) * C

FoldAlways(one, op, c, touched) == contract_z_op(one, op)

\* if c not in touched_sites: op = sites.contract_z(one_site, op)
FoldOneSite(one, op, c, touched) ==
    IF c \notin touched THEN contract_z_op(one, op) ELSE op

\* horizontal_links(nrows, ncols), as the sequence it yields
horizontal_links(R, C) ==
    [x \in 1..(R * (C - 1)) |->
        LET ij == ndindex(x - 1, C - 1)
        IN  << <<ij[1], ij[2]>>, <<ij[1], ij[2] + 1>> >>]

\* vertical_links(nrows, ncols), as the sequence it yields
vertical_links(R, C) ==
    [x \in 1..((R - 1) * C) |->
        LET ij == ndindex(x - 1, C)
        IN  << <<ij[1], ij[2]>>, <<ij[1] + 1, ij[2]>> >>]

RangeHasInclusive(x, stop) == x <= stop

\* for i in range(steps): whether the iterator yields another value
RangeHas(x, stop) == x < stop

NormDueOffByOne(x, nf) == x % nf = 0

\* if (i+1) % normfreq == 0
NormDue(x, nf) == (x + 1) % nf = 0

\* ------------------------------------------------------------------ Init
Init ==
    /\ nrow \in 0..MaxRows
    /\ ncol \in 0..MaxCols
    /\ maxrank \in 1..MaxRank
    /\ steps \in 0..MaxSteps
    /\ normfreq \in 1..MaxNormFreq
    /\ randomized_svd \in BOOLEAN
    /\ sv \in Spectra
    /\ pc = "build"
    /\ one_site = NoTensor
    /\ h_two_site = <<>>
    /\ v_two_site = <<>>
    /\ hoperators = <<>>
    /\ voperators = <<>>
    /\ touched_sites = {}
    /\ n = 0
    /\ grid = <<>>
    /\ i = 0
    /\ dir = "h"
    /\ e = 1
    /\ tmp = <<>>
    /\ issued = {}
    /\ updated = <<>>
    /\ normAt = <<>>
    /\ svdUsed = {}
    /\ pre = <<>>
    /\ grid0 = <<>>

\* ------------------------------------- build_tfi_trottered_step_operators
\* lines 54-62: the operators are computed before any loop is entered
BuildInit ==
    /\ pc = "build"
    /\ one_site' = one_site_operator
    /\ h_two_site' = horizontal_pair_site_operator(sv)
    /\ v_two_site' = vertical_pair_site_operator(sv)
    /\ hoperators' = <<>>
    /\ voperators' = <<>>
    /\ touched_sites' = {}
    /\ issued' = issued \cup {"expm", "einsvd", "einsum"}
    /\ n' = 0
    /\ pc' = "build_h"
    /\ UNCHANGED <<args, grid, i, dir, e, tmp, updated, normAt, svdUsed,
                   pre, grid0>>

\* line 64: np.ndindex(nrows, ncols-1) raises, nothing catches it
BuildHRaise ==
    /\ pc = "build_h"
    /\ ndindex_raises(nrow, ncol - 1)
    /\ pc' = "error"
    /\ UNCHANGED <<args, one_site, h_two_site, v_two_site, hoperators,
                   voperators, touched_sites, n, grid, i, dir, e, tmp,
                   issued, updated, normAt, svdUsed, pre, grid0>>

\* lines 64-73: one iteration of the horizontal loop
BuildHStep ==
    /\ pc = "build_h"
    /\ ~ndindex_raises(nrow, ncol - 1)
    /\ n < HCount(nrow, ncol)
    /\ LET ab == HEdge(ndindex(n, ncol - 1))
           a == ab[1]
           b == ab[2]
           op_a == FoldOneSite(one_site, h_two_site[1], a, touched_sites)
           touched1 == touched_sites \cup {a}
           op_b == FoldOneSite(one_site, h_two_site[2], b, touched1)
       IN  /\ touched_sites' = touched1 \cup {b}
           /\ hoperators' = Append(hoperators,
                                   [edge |-> ab, ops |-> <<op_a, op_b>>])
           /\ issued' = IF op_a.field + op_b.field > 0
                        THEN issued \cup {"contract_z"} ELSE issued
    /\ n' = n + 1
    /\ UNCHANGED <<args, pc, one_site, h_two_site, v_two_site, voperators,
                   grid, i, dir, e, tmp, updated, normAt, svdUsed, pre,
                   grid0>>

\* the horizontal loop is exhausted
BuildHExit ==
    /\ pc = "build_h"
    /\ ~ndindex_raises(nrow, ncol - 1)
    /\ n >= HCount(nrow, ncol)
    /\ n' = 0
    /\ pc' = "build_v"
    /\ UNCHANGED <<args, one_site, h_two_site, v_two_site, hoperators,
                   voperators, touched_sites, grid, i, dir, e, tmp, issued,
                   updated, normAt, svdUsed, pre, grid0>>

\* line 75: np.ndindex(nrows-1, ncols) raises
BuildVRaise ==
    /\ pc = "build_v"
    /\ ndindex_raises(nrow - 1, ncol)
    /\ pc' = "error"
    /\ UNCHANGED <<args, one_site, h_two_site, v_two_site, hoperators,
                   voperators, touched_sites, n, grid, i, dir, e, tmp,
                   issued, updated, normAt, svdUsed, pre, grid0>>

\* lines 75-76: one iteration of the vertical loop
BuildVStep ==
    /\ pc = "build_v"
    /\ ~ndindex_raises(nrow - 1, ncol)
    /\ n < VCount(nrow, ncol)
    /\ voperators' = Append(voperators,
                            [edge |-> VEdge(ndindex(n, ncol)),
                             ops |-> <<v_two_site[1], v_two_site[2]>>])
    /\ n' = n + 1
    /\ UNCHANGED <<args, pc, one_site, h_two_site, v_two_site, hoperators,
                   touched_sites, grid, i, dir, e, tmp, issued, updated,
                   normAt, svdUsed, pre, grid0>>

\* lines 77-83 and main's line 141: both maps are returned, entry by entry
\* in insertion order and with the same shapes, and run_peps is called
BuildVExit ==
    /\ pc = "build_v"
    /\ ~ndindex_raises(nrow - 1, ncol)
    /\ n >= VCount(nrow, ncol)
    /\ pc' = "random"
    /\ UNCHANGED <<args, one_site, h_two_site, v_two_site, hoperators,
                   voperators, touched_sites, n, grid, i, dir, e, tmp,
                   issued, updated, normAt, svdUsed, pre, grid0>>

\* ---------------------------------------------------------------- run_peps
\* line 120
RunInit ==
    /\ pc = "random"
    /\ grid' = peps_random(nrow, ncol, maxrank)
    /\ grid0' = grid'
    /\ issued' = issued \cup {"peps.random"}
    /\ i' = 0
    /\ pc' = "loop"
    /\ UNCHANGED <<args, one_site, h_two_site, v_two_site, hoperators,
                   voperators, touched_sites, n, dir, e, tmp, updated,
                   normAt, svdUsed, pre>>

\* line 123 yields the next i; apply_trottered_step_operators is entered
LoopNext ==
    /\ pc = "loop"
    /\ RangeHas(i, steps)
    /\ pc' = "edge"
    /\ dir' = "h"
    /\ e' = 1
    /\ UNCHANGED <<args, one_site, h_two_site, v_two_site, hoperators,
                   voperators, touched_sites, n, grid, i, tmp, issued,
                   updated, normAt, svdUsed, pre, grid0>>

\* line 123 is exhausted; lines 128-133 return qstate
LoopExit ==
    /\ pc = "loop"
    /\ ~RangeHas(i, steps)
    /\ pc' = "done"
    /\ UNCHANGED <<args, one_site, h_two_site, v_two_site, hoperators,
                   voperators, touched_sites, n, grid, i, dir, e, tmp,
                   issued, updated, normAt, svdUsed, pre, grid0>>

\* ------------------------------------------ apply_trottered_step_operators
\* the map being iterated (dict.items() yields in insertion order)
Ops == IF dir = "h" THEN hoperators ELSE voperators

\* lines 89 / 95: qstate.grid[a] = sites.contract_z(qstate[a], op_a)
ContractA ==
    /\ pc = "edge"
    /\ e <= Len(Ops)
    /\ LET a == Ops[e].edge[1]
       IN  grid' = [grid EXCEPT ![a] = contract_z(grid[a], Ops[e].ops[1])]
    /\ pre' = grid
    /\ issued' = issued \cup {"contract_z_site"}
    /\ pc' = "contract_b"
    /\ UNCHANGED <<args, one_site, h_two_site, v_two_site, hoperators,
                   voperators, touched_sites, n, i, dir, e, tmp, updated,
                   normAt, svdUsed, grid0>>

\* lines 90 / 96: qstate.grid[b] = sites.contract_z(qstate[b], op_b)
ContractB ==
    /\ pc = "contract_b"
    /\ LET b == Ops[e].edge[2]
       IN  grid' = [grid EXCEPT ![b] = contract_z(grid[b], Ops[e].ops[2])]
    /\ pc' = "reduce"
    /\ UNCHANGED <<args, one_site, h_two_site, v_two_site, hoperators,
                   voperators, touched_sites, n, i, dir, e, tmp, issued,
                   updated, normAt, svdUsed, pre, grid0>>

\* lines 92 / 98: the right-hand side is evaluated, then qstate.grid[a] is
\* stored (the targets of a tuple assignment are stored left to right)
Reduce ==
    /\ pc = "reduce"
    /\ LET a == Ops[e].edge[1]
           b == Ops[e].edge[2]
           option == ReduceOption(maxrank)
           res == IF dir = "h" THEN reduce_y(grid[a], grid[b], option)
                               ELSE reduce_x(grid[a], grid[b], option)
       IN  /\ tmp' = res
           /\ grid' = [grid EXCEPT ![a] = res[1]]
           /\ svdUsed' = svdUsed \cup {option.kind}
    /\ issued' = issued \cup {"reduce"}
    /\ pc' = "store_b"
    /\ UNCHANGED <<args, one_site, h_two_site, v_two_site, hoperators,
                   voperators, touched_sites, n, i, dir, e, updated, normAt,
                   pre, grid0>>

\* lines 92 / 98: qstate.grid[b] is stored; the loop moves to the next item
StoreB ==
    /\ pc = "store_b"
    /\ grid' = [grid EXCEPT ![Ops[e].edge[2]] = tmp[2]]
    /\ tmp' = <<>>
    /\ updated' = Append(updated, Ops[e].edge)
    /\ e' = e + 1
    /\ pc' = "edge"
    /\ UNCHANGED <<args, one_site, h_two_site, v_two_site, hoperators,
                   voperators, touched_sites, n, i, dir, issued, normAt,
                   svdUsed, pre, grid0>>

\* line 87 is exhausted: line 93 starts on voperators
HExit ==
    /\ pc = "edge"
    /\ dir = "h"
    /\ e > Len(hoperators)
    /\ dir' = "v"
    /\ e' = 1
    /\ UNCHANGED <<args, pc, one_site, h_two_site, v_two_site, hoperators,
                   voperators, touched_sites, n, grid, i, tmp, issued,
                   updated, normAt, svdUsed, pre, grid0>>

\* line 93 is exhausted: apply_trottered_step_operators returns
VExit ==
    /\ pc = "edge"
    /\ dir = "v"
    /\ e > Len(voperators)
    /\ pc' = "norm"
    /\ UNCHANGED <<args, one_site, h_two_site, v_two_site, hoperators,
                   voperators, touched_sites, n, grid, i, dir, e, tmp,
                   issued, updated, normAt, svdUsed, pre, grid0>>

\* lines 126-127, taken
Normalize ==
    /\ pc = "norm"
    /\ NormDue(i, normfreq)
    /\ grid' = site_normalize(grid)
    /\ normAt' = Append(normAt, [step |-> i + 1, swept |-> Len(updated)])
    /\ issued' = issued \cup {"site_normalize"}
    /\ i' = i + 1
    /\ pc' = "loop"
    /\ UNCHANGED <<args, one_site, h_two_site, v_two_site, hoperators,
                   voperators, touched_sites, n, dir, e, tmp, updated,
                   svdUsed, pre, grid0>>

\* line 126, not taken
SkipNormalize ==
    /\ pc = "norm"
    /\ ~NormDue(i, normfreq)
    /\ i' = i + 1
    /\ pc' = "loop"
    /\ UNCHANGED <<args, one_site, h_two_site, v_two_site, hoperators,
                   voperators, touched_sites, n, grid, dir, e, tmp, issued,
                   updated, normAt, svdUsed, pre, grid0>>

Next ==
    \/ BuildInit
    \/ BuildHRaise
    \/ BuildHStep
    \/ BuildHExit
    \/ BuildVRaise
    \/ BuildVStep
    \/ BuildVExit
    \/ RunInit
    \/ LoopNext
    \/ LoopExit
    \/ ContractA
    \/ ContractB
    \/ Reduce
    \/ StoreB
    \/ HExit
    \/ VExit
    \/ Normalize
    \/ SkipNormalize

Spec == Init /\ [][Next]_vars


\* ===================================================================
\* Properties
\* ===================================================================
Coords == (0..nrow-1) \X (0..ncol-1)

\* build_tfi_trottered_step_operators has returned
Built == pc \notin {"build", "build_h", "build_v", "error"}

\* qstate exists
InGrid == pc \in {"loop", "edge", "contract_b", "reduce", "store_b",
                  "norm", "done"}

\* inside apply_trottered_step_operators
InStep == pc \in {"edge", "contract_b", "reduce", "store_b"}

AllEntries == hoperators \o voperators

\* the factors (entry, side) acting on c that carry a single-site operator
Carriers(c) ==
    {xs \in (1..Len(AllEntries)) \X {1, 2} :
        /\ AllEntries[xs[1]].edge[xs[2]] = c
        /\ AllEntries[xs[1]].ops[xs[2]].field > 0}

InHorizontalEdge(c) ==
    \E x \in 1..Len(hoperators) : c \in {hoperators[x].edge[1],
                                         hoperators[x].edge[2]}

CoveredOnce(c) ==
    /\ Cardinality(Carriers(c)) = 1
    /\ \A xs \in Carriers(c) : AllEntries[xs[1]].ops[xs[2]].field = 1

StepOrder == horizontal_links(nrow, ncol) \o vertical_links(nrow, ncol)

NumEdges == Len(StepOrder)

RECURSIVE Repeat(_, _)
Repeat(s, k) == IF k <= 0 THEN <<>> ELSE s \o Repeat(s, k - 1)

\* bond updates finished in the step in progress
DoneInStep ==
    CASE pc \in {"loop", "done"} -> 0
      [] pc = "norm" -> NumEdges
      [] OTHER -> IF dir = "h" THEN e - 1 ELSE Len(hoperators) + e - 1

Lex(c, d) == c[1] < d[1] \/ (c[1] = d[1] /\ c[2] < d[2])

RowMajor(s) == \A x \in 1..Len(s), y \in 1..Len(s) :
                  x < y => Lex(s[x][1], s[y][1])

BondsAgree ==
    \A c \in DOMAIN grid :
        /\ c[2] + 1 < ncol =>
             grid[c].dims[East] = grid[<<c[1], c[2] + 1>>].dims[West]
        /\ c[1] + 1 < nrow =>
             grid[c].dims[South] = grid[<<c[1] + 1, c[2]>>].dims[North]

\* the singular weights of contract(factor_a, factor_b) over the gate bond
Reconstruct(pair) == [x \in DOMAIN pair[1].w |-> pair[1].w[x] * pair[2].w[x]]

\* C1: when the bond update of an edge (a,b) has finished, the bond between
\* a and b has dimension <= maxrank at both ends, every other leg of a and b
\* has the dimension it had before the update, and no other site was written.
C1_BondUpdate ==
    (pc = "edge" /\ e > 1) =>
        LET a == Ops[e - 1].edge[1]
            b == Ops[e - 1].edge[2]
            la == IF dir = "h" THEN East ELSE South
            lb == IF dir = "h" THEN West ELSE North
        IN  /\ grid[a].dims[la] <= maxrank
            /\ grid[b].dims[lb] <= maxrank
            /\ \A l \in 1..4 : l # la => grid[a].dims[l] = pre[a].dims[l]
            /\ \A l \in 1..4 : l # lb => grid[b].dims[l] = pre[b].dims[l]
            /\ \A c \in DOMAIN grid : c \notin {a, b} => grid[c] = pre[c]

C1_Witness ==
    /\ pc = "edge" /\ e > 1 /\ dir = "v"
    /\ nrow = 2 /\ ncol = 3
    /\ grid[Ops[e - 1].edge[1]].ver > pre[Ops[e - 1].edge[1]].ver
    /\ grid[Ops[e - 1].edge[1]].dims[South] = maxrank

\* C2: on a lattice with at least 2 rows and 2 columns, once the operators
\* are built every coordinate has exactly one factor carrying the single-site
\* operator, carrying it once, and touched_sites is the set of coordinates.
C2_Coverage ==
    (Built /\ nrow >= 2 /\ ncol >= 2) =>
        /\ \A c \in Coords : CoveredOnce(c)
        /\ touched_sites = Coords

C2_Witness ==
    /\ Built /\ nrow = 2 /\ ncol = 3
    /\ Len(hoperators) = 4
    /\ hoperators[2].ops[1].field = 0
    /\ hoperators[2].ops[2].field = 1

\* C3: the bond updates of the run are, step after step, every horizontal
\* edge once in the row-major order of horizontal_links and then every
\* vertical edge once in the row-major order of vertical_links.
C3_SweepOrder ==
    InGrid =>
        /\ updated = Repeat(StepOrder, i) \o SubSeq(StepOrder, 1, DoneInStep)
        /\ RowMajor(horizontal_links(nrow, ncol))
        /\ RowMajor(vertical_links(nrow, ncol))
        /\ Len(hoperators) = Len(horizontal_links(nrow, ncol))
        /\ Len(voperators) = Len(vertical_links(nrow, ncol))

C3_Witness ==
    /\ pc = "norm" /\ i = 1 /\ nrow = 2 /\ ncol = 3
    /\ Len(updated) = 14
    /\ updated[2] = << <<0, 1>>, <<0, 2>> >>
    /\ updated[5] = << <<0, 0>>, <<1, 0>> >>

\* C4: site_normalize has been called exactly once for every positive
\* multiple of normfreq among the completed steps, each time after the full
\* sweep of that step and before any update of the next; at the end it was
\* called steps \div normfreq times; steps run one after the other.
C4_NormSchedule ==
    InGrid =>
        /\ normAt = [m \in 1..(i \div normfreq) |->
                        [step |-> m * normfreq,
                         swept |-> m * normfreq * NumEdges]]
        /\ i <= steps
        /\ (InStep \/ pc = "norm") => i < steps
        /\ pc = "done" => (i = steps /\ Len(normAt) = steps \div normfreq)
        /\ Len(updated) = i * NumEdges + DoneInStep

C4_Witness ==
    /\ pc = "done" /\ steps = 2 /\ normfreq = 2
    /\ Len(normAt) = 1 /\ NumEdges = 7

\* C5: the truncation of the reduce calls follows randomized_svd: exact SVD
\* when it is false, implicit randomized SVD when it is true.
C5_SvdSelected ==
    svdUsed \subseteq {IF randomized_svd THEN "implicit_rsvd" ELSE "exact"}

\* C6: a run that ends in the error state of an invalid configuration has
\* issued no backend operation.
C6_FailFast == pc = "error" => issued = {}

\* C7: the two factors of each pair carry the square root of each singular
\* value, so contracting them over the gate bond gives back the singular
\* values of the two-site operator.
C7_RoundTrip ==
    pc # "build" =>
        /\ Reconstruct(h_two_site) = sv
        /\ Reconstruct(v_two_site) = sv

\* C8: with steps = 0 the run ends with no bond update and no site_normalize
\* call, and the returned grid is the one peps.random created.
C8_ZeroSteps ==
    (pc = "done" /\ steps = 0) =>
        /\ grid = grid0
        /\ grid = peps_random(nrow, ncol, maxrank)
        /\ updated = <<>>
        /\ normAt = <<>>
        /\ issued \cap {"contract_z_site", "reduce", "site_normalize"} = {}

C8_Witness ==
    /\ pc = "done" /\ steps = 0 /\ nrow = 2 /\ ncol = 3
    /\ DOMAIN grid = Coords

\* C9 (as stated): in every state of a run the two ends of every internal
\* edge hold the same bond dimension.
C9_AlwaysAgree == InGrid => BondsAgree

\* C9 (amended): the two ends of every internal edge hold the same bond
\* dimension in every state except between the store of qstate.grid[a] and
\* the store of qstate.grid[b], of the contractions and of the reduce step.
C9_AgreeBetweenWrites ==
    (InGrid /\ pc \notin {"contract_b", "store_b"}) => BondsAgree

C9_Witness ==
    /\ pc = "reduce" /\ dir = "h"
    /\ grid[Ops[e].edge[1]].dims[East] = GateBond * maxrank
    /\ grid[Ops[e].edge[2]].dims[West] = GateBond * maxrank

\* C10 (as stated): on a single-row or single-column lattice some coordinate
\* is in no horizontal edge and has no factor carrying the single-site
\* operator.
C10_SingleRowOrColumn ==
    (Built /\ (nrow = 1 \/ ncol = 1)) =>
        \E c \in Coords : ~InHorizontalEdge(c) /\ Carriers(c) = {}

\* C10 (amended): on a single-column lattice no coordinate is in a
\* horizontal edge and no factor of either map carries the single-site
\* operator; a single-row lattice with at least two columns has every
\* coordinate in a horizontal edge and covered exactly once.
C10_SingleColumn ==
    /\ (Built /\ ncol = 1) =>
          /\ Coords # {}
          /\ \A c \in Coords : ~InHorizontalEdge(c) /\ Carriers(c) = {}
    /\ (Built /\ nrow = 1 /\ ncol >= 2) =>
          \A c \in Coords : InHorizontalEdge(c) /\ CoveredOnce(c)

C10_Witness ==
    /\ Built /\ ncol = 1 /\ nrow = 2
    /\ Len(voperators) = 1 /\ hoperators = <<>>

====
